---- MODULE Spec2Model ----
(***************************************************************************)
(* A model of ElegantRedis' CaskContainer (src/src/index.ts): a container  *)
(* that keeps a Redis hash (the cache) and a MongoDB document (the durable *)
(* store) for a tree-shaped value addressed by a key.                      *)
(*                                                                         *)
(* Strings are sequences of one-character strings, so that startsWith,     *)
(* length, the "." of flattened paths and the number/JSON parsing of       *)
(* StorageUtils.transform are computed as the code computes them.          *)
(* A JavaScript value is a tagged record; a number is its canonical        *)
(* decimal digits (what Number.prototype.toString prints).                 *)
(***************************************************************************)
EXTENDS Integers, Sequences, FiniteSets, TLC

(***************************************************************************)
(* JavaScript values                                                       *)
(***************************************************************************)
Undef == [t |-> "undefined"]
Null == [t |-> "null"]
Bool(b) == [t |-> "boolean", b |-> b]
Num(d) == [t |-> "number", d |-> d]
Str(s) == [t |-> "string", s |-> s]
Arr(e) == [t |-> "array", e |-> e]
Obj(f) == [t |-> "object", f |-> f]

NoFields == [x \in {} |-> Undef]
EmptyObj == Obj(NoFields)

\* a hit test that takes every defined value for a hit
Truthy_Defined(v) == v.t # "undefined"

\* a hit test for which an object without a field is falsy too
Truthy_NonEmpty(v) ==
    CASE v.t = "undefined" -> FALSE
      [] v.t = "null" -> FALSE
      [] v.t = "boolean" -> v.b
      [] v.t = "number" -> v.d # <<"0">>
      [] v.t = "string" -> v.s # <<>>
      [] v.t = "object" -> DOMAIN v.f # {}
      [] OTHER -> TRUE

\* if (x): undefined, null, false, 0 and "" are falsy, every object and array is truthy
Truthy(v) ==
    CASE v.t = "undefined" -> FALSE
      [] v.t = "null" -> FALSE
      [] v.t = "boolean" -> v.b
      [] v.t = "number" -> v.d # <<"0">>
      [] v.t = "string" -> v.s # <<>>
      [] OTHER -> TRUE

(***************************************************************************)
(* Strings                                                                 *)
(***************************************************************************)
Dot == <<".">>
StrTrue == <<"t", "r", "u", "e">>
StrFalse == <<"f", "a", "l", "s", "e">>
Digits == {"0", "1", "2", "3", "4", "5", "6", "7", "8", "9"}

startsWith(s, r) == Len(r) <= Len(s) /\ SubSeq(s, 1, Len(r)) = r
endsWith(s, r) == Len(r) <= Len(s) /\ SubSeq(s, Len(s) - Len(r) + 1, Len(s)) = r

\* (s as any) * 1 is not NaN. Over the alphabet of the model (digits, letters,
\* brackets, braces, comma, quote) a string converts to a number exactly when
\* it is empty (0) or all digits.
IsNumeric(s) == \A i \in 1..Len(s) : s[i] \in Digits

RECURSIVE StripZeros(_)
StripZeros(s) == IF Len(s) > 1 /\ Head(s) = "0" THEN StripZeros(Tail(s)) ELSE s

\* the number a numeric string converts to, as canonical digits
ToNumber(s) == IF s = <<>> THEN <<"0">> ELSE StripZeros(s)

RECURSIVE JoinWith(_, _)
JoinWith(parts, sep) ==
    IF parts = <<>> THEN <<>>
    ELSE IF Len(parts) = 1 THEN parts[1]
    ELSE parts[1] \o sep \o JoinWith(Tail(parts), sep)

\* JSON.stringify of the values the cache serializes: arrays of scalars and
\* the empty object (flat descends into every non-empty object)
RECURSIVE JSONStringify(_)
JSONStringify(v) ==
    CASE v.t = "number" -> v.d
      [] v.t = "string" -> <<"\"">> \o v.s \o <<"\"">>
      [] v.t = "boolean" -> IF v.b THEN StrTrue ELSE StrFalse
      [] v.t = "array" ->
            <<"[">> \o JoinWith([i \in 1..Len(v.e) |-> JSONStringify(v.e[i])], <<",">>) \o <<"]">>
      [] v.t = "object" -> <<"{", "}">>
      [] OTHER -> <<"n", "u", "l", "l">>

\* the string the Redis client sends for a hash value
RedisString(v) ==
    CASE v.t = "number" -> v.d
      [] v.t = "string" -> v.s
      [] v.t = "boolean" -> IF v.b THEN StrTrue ELSE StrFalse
      [] OTHER -> JSONStringify(v)

(***************************************************************************)
(* The values and keys the operations are called with                      *)
(***************************************************************************)
KeyA == <<"a">>
KeyAB == <<"a", "b">>
AllKeys == {KeyA, KeyAB}

FA == <<"a">>
FB == <<"b">>
FC == <<"c">>

N0 == Num(<<"0">>)
N1 == Num(<<"1">>)
N2 == Num(<<"2">>)
N5 == Num(<<"5">>)
\* a number of 15 digits: longer than transform's limit
NLong == Num(<<"1", "2", "3", "4", "5", "6", "7", "8", "9", "0", "1", "2", "3", "4", "5">>)
S5 == Str(<<"5">>)
SEmpty == Str(<<>>)
SHi == Str(<<"h", "i">>)
VFalse == Bool(FALSE)
VTrue == Bool(TRUE)
VArr == Arr(<<N1, N2>>)
VObjAB == Obj(FA :> N1 @@ FB :> N2)
VObjA == Obj(FA :> N1)
VObjB == Obj(FB :> N2)
VObjStr == Obj(FA :> S5)
VObjEmptyStr == Obj(FA :> SEmpty)
VNested == Obj(FA :> Obj(FB :> N1 @@ FC :> N2))
VNullLeaf == Obj(FA :> N1 @@ FB :> Null)

\* what JSON.parse can return in the model: the values JSONStringify serializes
JSONValues == {EmptyObj, VArr, Arr(<<>>), Arr(<<N1>>)}

JSONParses(s) == \E v \in JSONValues : JSONStringify(v) = s
JSONParse(s) == CHOOSE v \in JSONValues : JSONStringify(v) = s

(***************************************************************************)
(* StorageUtils                                                            *)
(***************************************************************************)
TransformMaxLen == 14

transform(cachedValue) ==
    IF Len(cachedValue) <= TransformMaxLen /\ IsNumeric(cachedValue)
    THEN Num(ToNumber(cachedValue))
    ELSE IF cachedValue = StrTrue THEN Bool(TRUE)
    ELSE IF cachedValue = StrFalse THEN Bool(FALSE)
    ELSE IF /\ \/ startsWith(cachedValue, <<"[">>) /\ endsWith(cachedValue, <<"]">>)
               \/ startsWith(cachedValue, <<"{">>) /\ endsWith(cachedValue, <<"}">>)
            /\ JSONParses(cachedValue)
    THEN JSONParse(cachedValue)
    ELSE Str(cachedValue)

joinKeys(keys) == JoinWith(keys, Dot)

(***************************************************************************)
(* flat(value, {safe: true}) and flat.unflatten                            *)
(***************************************************************************)
\* the set of <<path, leaf>> of value under prefix: non-empty objects are
\* descended into, arrays and empty objects are leaves
RECURSIVE FlatStep(_, _)
FlatStep(prefix, v) ==
    IF v.t = "object" /\ DOMAIN v.f # {}
    THEN UNION {FlatStep(joinKeys(<<prefix, k>>), v.f[k]) : k \in DOMAIN v.f}
    ELSE {<<prefix, v>>}

\* flat({[key]: value}, {safe: true}) as a function path -> leaf
flat(key, value) ==
    LET pairs == FlatStep(key, value)
    IN  [p \in {e[1] : e \in pairs} |-> (CHOOSE e \in pairs : e[1] = p)[2]]

RECURSIVE Split(_)
Split(s) ==
    IF \E i \in 1..Len(s) : s[i] = "."
    THEN LET i == CHOOSE j \in 1..Len(s) : s[j] = "." /\ \A m \in 1..(j - 1) : s[m] # "."
         IN  <<SubSeq(s, 1, i - 1)>> \o Split(SubSeq(s, i + 1, Len(s)))
    ELSE <<s>>

\* unflatten takes the keys shortest first and never writes below a value that
\* is neither an object nor undefined; entries are <<segments, value>>
RECURSIVE UnflattenSegs(_)
UnflattenSegs(entries) ==
    LET heads == {e[1][1] : e \in entries}
        exact(h) == {e \in entries : e[1] = <<h>>}
        deeper(h) == {<<Tail(e[1]), e[2]>> : e \in {d \in entries : Len(d[1]) > 1 /\ d[1][1] = h}}
        field(h) ==
            IF exact(h) # {}
            THEN LET val == (CHOOSE e \in exact(h) : TRUE)[2]
                 IN  IF val.t = "object" /\ deeper(h) # {}
                     THEN Obj(UnflattenSegs(deeper(h)) @@ val.f)
                     ELSE val
            ELSE Obj(UnflattenSegs(deeper(h)))
    IN  [h \in heads |-> field(h)]

unflatten(result) ==
    Obj(UnflattenSegs({<<Split(p), result[p]>> : p \in DOMAIN result}))

(***************************************************************************)
(* State                                                                   *)
(***************************************************************************)
VARIABLES
    redisFailed,    \* (global as any).redisFailed
    notified,       \* the module's notified flag
    hashes,         \* Redis: cache identifier -> (field path -> string)
    docs,           \* MongoDB: the documents matching the containers' query, oldest first
    model,          \* whether this.model() yields a Model
    redisID,        \* container -> its redisID
    fallbackData,   \* container -> its fallbackData
    nextId,         \* the next fresh ObjectId / uuid
    proc,           \* the calls in flight
    log,            \* the calls that ended, in the order they ended
    faults,         \* transport errors, store errors and connection losses so far
    events          \* the transport events so far, and what the handlers printed

vars ==
    <<redisFailed, notified, hashes, docs, model, redisID, fallbackData, nextId, proc, log, faults,
      events>>

MaxOps == 2
MaxFaults == 1

Containers == {1, 2}
Procs == {1, 2}

Unassigned == <<"unassigned", 0>>
DocRedisID(id) == <<"storage.doc", id>>
\* a uuid.v4() that gives every container the same identifier
UuidRedisID_Fixed(id) == <<"storage.uuid", 0>>

UuidRedisID(id) == <<"storage.uuid", id>>

AllUndef == [k \in AllKeys |-> Undef]
NoHash == [x \in {} |-> <<>>]
NoDoc == [id |-> 0, isNew |-> FALSE, hasRoot |-> FALSE, storage |-> AllUndef]

Idle ==
    [op |-> "idle", c |-> 0, key |-> <<>>, value |-> Undef, cpc |-> "done", spc |-> "done",
     ret |-> "none", doc |-> NoDoc, rid |-> Unassigned, keys |-> {}, pushed |-> Undef,
     res |-> Undef, hit |-> FALSE, outage |-> FALSE, inits |-> 0, errs |-> {},
     down |-> FALSE, alone |-> TRUE]

\* a branch of a call has ended: its promise resolved, rejected, or can never settle
Terminal == {"done", "failed", "stuck"}

HashOf(id) == IF id \in DOMAIN hashes THEN hashes[id] ELSE NoHash

\* a hash with no field left does not exist
WithHash(id, h) ==
    IF DOMAIN h = {}
    THEN [i \in DOMAIN hashes \ {id} |-> hashes[i]]
    ELSE [i \in DOMAIN hashes \cup {id} |-> IF i = id THEN h ELSE hashes[i]]

Active == {p \in Procs : proc[p].op # "idle"}

\* the calls made so far
Started == Len(log) + Cardinality(Active)

Init ==
    /\ redisFailed = FALSE
    /\ notified = FALSE
    /\ hashes = [x \in {} |-> NoHash]
    /\ docs = <<>>
    /\ model \in BOOLEAN
    /\ redisID = [c \in Containers |-> Unassigned]
    /\ fallbackData = [c \in Containers |-> AllUndef]
    /\ nextId = 1
    /\ proc = [p \in Procs |-> Idle]
    /\ log = <<>>
    /\ faults = 0
    /\ events = [lastError |-> FALSE, repeated |-> FALSE, notes |-> 0]

(***************************************************************************)
(* The connection-event handlers                                           *)
(***************************************************************************)
\* a "ready" handler that leaves notified as it is
OnReady_KeepNotified ==
    /\ redisFailed' = FALSE
    /\ notified' = notified
    /\ events' = [lastError |-> FALSE, repeated |-> FALSE, notes |-> 0]
    /\ proc' = [p \in Procs |-> [proc[p] EXCEPT !.down = FALSE]]
    /\ UNCHANGED <<hashes, docs, model, redisID, fallbackData, nextId, log, faults>>

\* .on("ready"); events: the last event is not an error, and the outage, if
\* there was one, is over
OnReady ==
    /\ redisFailed' = FALSE
    /\ notified' = FALSE
    /\ events' = [lastError |-> FALSE, repeated |-> FALSE, notes |-> 0]
    /\ proc' = [p \in Procs |-> [proc[p] EXCEPT !.down = FALSE]]
    /\ UNCHANGED <<hashes, docs, model, redisID, fallbackData, nextId, log, faults>>

\* .on("error"): the first one of an outage raises redisFailed; events: the
\* last event is an error, a repeated one if the one before was, and the
\* block under if (!notified) prints the notification
OnError ==
    /\ notified \/ faults < MaxFaults
    /\ redisFailed' = IF ~notified THEN TRUE ELSE redisFailed
    /\ notified' = TRUE
    /\ events' = [lastError |-> TRUE, repeated |-> events.lastError,
                  notes |-> IF ~notified THEN events.notes + 1 ELSE events.notes]
    /\ faults' = IF ~notified THEN faults + 1 ELSE faults
    /\ proc' = [p \in Procs |->
                   IF proc[p].op # "idle" /\ ~notified THEN [proc[p] EXCEPT !.outage = TRUE] ELSE proc[p]]
    /\ UNCHANGED <<hashes, docs, model, redisID, fallbackData, nextId, log>>

(***************************************************************************)
(* The synchronous code between two suspension points, as functions of the *)
(* call's record                                                           *)
(***************************************************************************)
\* getDocument: without a model it returns undefined, else findOne is issued
getDocument(r, ret) ==
    [r EXCEPT !.ret = ret, !.spc = IF model THEN "findOne" ELSE "noModel"]

\* a pushToRedis that issues hmset whatever redisFailed says
pushToRedis_Unchecked(r, value) ==
    [r EXCEPT !.cpc = "hmset", !.pushed = value, !.rid = redisID[r.c]]

\* pushToRedis: with redisFailed the executor returns and the promise never
\* settles; else hmset is issued
pushToRedis(r, value) ==
    IF redisFailed
    THEN [r EXCEPT !.cpc = "stuck", !.pushed = value]
    ELSE [r EXCEPT !.cpc = "hmset", !.pushed = value, !.rid = redisID[r.c]]

\* getItem after a miss: getMongo
missed(r) == getDocument([r EXCEPT !.cpc = "done"], "getMongo")

\* a getItem that returns storedItem without writing it to the cache
gotMongo_NoPush(r, storedItem) ==
    [r EXCEPT !.spc = "done", !.cpc = "done", !.res = storedItem]

\* getItem once getMongo returned storedItem
gotMongo(r, storedItem) ==
    IF storedItem # Undef
    THEN pushToRedis([r EXCEPT !.spc = "done", !.res = storedItem], storedItem)
    ELSE [r EXCEPT !.spc = "done", !.cpc = "done", !.res = Undef]

\* setItem once recursivelyDeleteFromCache resolved: pushToRedis and setMongo
\* are both started
deleted(r) ==
    IF r.op = "setItem"
    THEN getDocument(pushToRedis(r, r.value), "setMongo")
    ELSE [r EXCEPT !.cpc = "done"]

\* recursivelyDeleteFromCache never settles: a setItem waiting for it starts
\* nothing more
neverDeleted(r) ==
    [r EXCEPT !.cpc = "stuck", !.spc = IF r.op = "setItem" THEN "done" ELSE r.spc]

\* bodies in which setItem writes without deleting first
body_NoDelete(r, rid) ==
    CASE r.op = "getItem" ->
            IF redisFailed THEN missed(r)
            ELSE [r EXCEPT !.cpc = "getCached.hkeys", !.spc = "wait", !.rid = rid]
      [] r.op = "setItem" -> deleted(r)
      [] OTHER ->
            getDocument(IF redisFailed THEN [r EXCEPT !.cpc = "done"]
                        ELSE [r EXCEPT !.cpc = "delete.hkeys", !.rid = rid],
                        "deleteMongo")

\* the body of an operation, after await this.setRedisID(); rid is this.redisID
body(r, rid) ==
    CASE r.op = "getItem" ->
            IF redisFailed THEN missed(r)
            ELSE [r EXCEPT !.cpc = "getCached.hkeys", !.spc = "wait", !.rid = rid]
      [] r.op = "setItem" ->
            IF redisFailed THEN deleted(r)
            ELSE [r EXCEPT !.cpc = "delete.hkeys", !.spc = "wait", !.rid = rid]
      [] OTHER ->
            getDocument(IF redisFailed THEN [r EXCEPT !.cpc = "done"]
                        ELSE [r EXCEPT !.cpc = "delete.hkeys", !.rid = rid],
                        "deleteMongo")

(***************************************************************************)
(* Starting an operation: the public methods up to their first suspension  *)
(***************************************************************************)
\* setRedisID, then the body
begin(p, r) ==
    /\ proc[p].op = "idle"
    /\ proc' = [q \in Procs |->
                   IF q = p
                   THEN LET s == [r EXCEPT !.alone = Active = {}]
                        IN  IF redisID[r.c] # Unassigned
                            THEN body(s, redisID[r.c])
                            ELSE getDocument([s EXCEPT !.cpc = "wait"], "setRedisID")
                   ELSE IF proc[q].op # "idle" THEN [proc[q] EXCEPT !.alone = FALSE]
                   ELSE proc[q]]
    /\ UNCHANGED <<redisFailed, notified, events, hashes, docs, model, redisID, fallbackData, nextId, log, faults>>

getItem(p, c, key) ==
    begin(p, [Idle EXCEPT !.op = "getItem", !.c = c, !.key = key, !.outage = redisFailed,
                          !.down = redisFailed])

setItem(p, c, key, value) ==
    begin(p, [Idle EXCEPT !.op = "setItem", !.c = c, !.key = key, !.value = value,
                          !.outage = redisFailed, !.down = redisFailed])

deleteItem(p, c, key) ==
    begin(p, [Idle EXCEPT !.op = "deleteItem", !.c = c, !.key = key, !.outage = redisFailed,
                          !.down = redisFailed])

(***************************************************************************)
(* The store side: getDocument, setRedisID, getMongo, setMongo, deleteMongo *)
(***************************************************************************)
\* a store call rejects: the error propagates to the operation
storeFails(p) ==
    /\ faults < MaxFaults
    /\ faults' = faults + 1
    /\ proc' = [proc EXCEPT ![p] =
                   [@ EXCEPT !.spc = "failed", !.cpc = IF @ = "wait" THEN "done" ELSE @,
                             !.errs = @ \cup {<<proc[p].spc, proc[p].ret>>}]]
    /\ UNCHANGED <<redisFailed, notified, events, hashes, docs, model, redisID, fallbackData, nextId, log>>

\* a getMongo that reads the fallback map whether or not there is a document
getMongoResult_Fallback(r, hasDoc, d) == fallbackData[r.c][r.key]

\* what getMongo returns: the document's field, or without a document the
\* fallback map's
getMongoResult(r, hasDoc, d) ==
    IF hasDoc THEN d.storage[r.key] ELSE fallbackData[r.c][r.key]

\* what the caller of getDocument does with the document d (hasDoc) or with
\* undefined; fresh is the uuid drawn when there is none
afterDocument(p, r, hasDoc, d, fresh) ==
    CASE r.ret = "setRedisID" ->
            LET rid == IF hasDoc THEN DocRedisID(d.id) ELSE UuidRedisID(fresh)
            IN  /\ redisID' = [redisID EXCEPT ![r.c] = rid]
                /\ proc' = [proc EXCEPT ![p] = body([r EXCEPT !.doc = d], rid)]
                /\ UNCHANGED fallbackData
      [] r.ret = "getMongo" ->
            /\ proc' = [proc EXCEPT ![p] =
                           gotMongo([r EXCEPT !.doc = d], getMongoResult(r, hasDoc, d))]
            /\ UNCHANGED <<redisID, fallbackData>>
      [] OTHER ->
            LET v == IF r.ret = "setMongo" THEN r.value ELSE Undef
            IN  IF hasDoc
                THEN /\ proc' = [proc EXCEPT ![p] = [r EXCEPT !.doc = d, !.spc = "save"]]
                     /\ UNCHANGED <<redisID, fallbackData>>
                ELSE /\ proc' = [proc EXCEPT ![p] = [r EXCEPT !.doc = d, !.spc = "done"]]
                     /\ fallbackData' = [fallbackData EXCEPT ![r.c][r.key] = v]
                     /\ UNCHANGED redisID

\* this.model() gave null: getDocument resolved undefined
noModel(p) ==
    /\ proc[p].spc = "noModel"
    /\ afterDocument(p, proc[p], FALSE, NoDoc, nextId)
    /\ nextId' = IF proc[p].ret = "setRedisID" THEN nextId + 1 ELSE nextId
    /\ UNCHANGED <<redisFailed, notified, events, hashes, docs, model, log, faults>>

\* a getDocument that saves on every call
needsSave_Always == TRUE

\* the document that findOne resolves with for the stored document d
found(d) == [id |-> d.id, isNew |-> FALSE, hasRoot |-> d.hasRoot, storage |-> d.storage]

\* getDocument's changes: no document was found, or it has no storage root
needsSave == IF docs = <<>> THEN TRUE ELSE ~docs[1].hasRoot

\* model.findOne(this.query) answered
findOne(p) ==
    /\ proc[p].spc = "findOne"
    /\ \/ storeFails(p)
       \/ /\ ~needsSave
          /\ afterDocument(p, proc[p], TRUE, found(docs[1]), nextId)
          /\ UNCHANGED <<redisFailed, notified, events, hashes, docs, model, nextId, log, faults>>
       \/ /\ needsSave
          /\ LET document == IF docs # <<>> THEN found(docs[1])
                             ELSE [NoDoc EXCEPT !.id = nextId, !.isNew = TRUE]
             IN  proc' = [proc EXCEPT ![p] =
                             [@ EXCEPT !.doc = [document EXCEPT !.hasRoot = TRUE, !.storage = AllUndef],
                                       !.spc = "getDocument.save"]]
          /\ nextId' = IF docs = <<>> THEN nextId + 1 ELSE nextId
          /\ UNCHANGED <<redisFailed, notified, events, hashes, docs, model, redisID, fallbackData, log, faults>>

\* the documents after document.save() of d
saved(d) ==
    IF d.isNew
    THEN Append(docs, [id |-> d.id, hasRoot |-> d.hasRoot, storage |-> d.storage])
    ELSE [i \in DOMAIN docs |->
             IF docs[i].id = d.id THEN [docs[i] EXCEPT !.hasRoot = d.hasRoot, !.storage = d.storage]
             ELSE docs[i]]

\* getDocument's document.save() answered
getDocumentSave(p) ==
    /\ proc[p].spc = "getDocument.save"
    /\ \/ storeFails(p)
       \/ /\ docs' = saved(proc[p].doc)
          /\ afterDocument(p, [proc[p] EXCEPT !.inits = @ + 1, !.doc.isNew = FALSE],
                           TRUE, [proc[p].doc EXCEPT !.isNew = FALSE], nextId)
          /\ UNCHANGED <<redisFailed, notified, events, hashes, model, nextId, log, faults>>

\* setMongo's / deleteMongo's document.save() answered: the path marked
\* modified, storage.<key>, is written
mongoSave(p) ==
    /\ proc[p].spc = "save"
    /\ \/ storeFails(p)
       \/ /\ docs' = [i \in DOMAIN docs |->
                        IF docs[i].id = proc[p].doc.id
                        THEN [docs[i] EXCEPT !.storage[proc[p].key] =
                                 IF proc[p].ret = "setMongo" THEN proc[p].value ELSE Undef]
                        ELSE docs[i]]
          /\ proc' = [proc EXCEPT ![p].spc = "done"]
          /\ UNCHANGED <<redisFailed, notified, events, hashes, model, redisID, fallbackData, nextId, log, faults>>

(***************************************************************************)
(* The cache side: getRedisKeys, getFromRedis, getCached, pushToRedis,     *)
(* deleteFromCache, recursivelyDeleteFromCache                             *)
(***************************************************************************)
\* keys.filter((key) => key.startsWith(root))
filterKeys(keys, root) == {k \in keys : startsWith(k, root)}

\* what getRedisKeys resolves with when hkeys answers
getRedisKeys(rid, root) == filterKeys(DOMAIN HashOf(rid), root)

\* getCached without the return of the single field that is the key
getCachedResult_NoUnwrap(result, key) ==
    unflatten([k \in DOMAIN result |-> transform(result[k])])

\* getCached from the flattened result of getFromRedis on
getCachedResult(result, key) ==
    LET transformed == [k \in DOMAIN result |-> transform(result[k])]
    IN  IF DOMAIN result = {key} THEN transformed[key] ELSE unflatten(transformed)

\* the entries pushToRedis passes to hmset, and the fields it deletes
hmSets(key, value) ==
    LET flattened == flat(key, value)
    IN  [k \in {x \in DOMAIN flattened : flattened[x] \notin {Null, Undef}} |->
            RedisString(flattened[k])]

hDel(key, value) ==
    LET flattened == flat(key, value)
    IN  {x \in DOMAIN flattened : flattened[x] \in {Null, Undef}}

\* the transport reports an error for the command in flight
transportError(p, r) ==
    /\ faults < MaxFaults
    /\ faults' = faults + 1
    /\ proc' = [proc EXCEPT ![p] = [r EXCEPT !.errs = @ \cup {<<proc[p].cpc, "cache">>}]]
    /\ UNCHANGED <<redisFailed, notified, events, hashes, docs, model, redisID, fallbackData, nextId, log>>

\* redis.hkeys of getRedisKeys answered, called by getCached
getCachedKeys(p) ==
    /\ proc[p].cpc = "getCached.hkeys"
    /\ \/ transportError(p, [proc[p] EXCEPT !.cpc = "failed", !.spc = "done"])
       \/ /\ LET r == proc[p]
                 keys == getRedisKeys(r.rid, r.key)
             IN  proc' = [proc EXCEPT ![p] =
                             IF redisFailed THEN missed(r)
                             ELSE [r EXCEPT !.cpc = "getCached.hmget", !.keys = keys]]
          /\ UNCHANGED <<redisFailed, notified, events, hashes, docs, model, redisID, fallbackData, nextId, log, faults>>

\* redis.hmget of getFromRedis answered: an error (also the one for an empty
\* list of fields) resolves undefined; a listed field that is gone comes back
\* null and transform throws on it
getFromRedis(p) ==
    /\ proc[p].cpc = "getCached.hmget"
    /\ \/ transportError(p, missed(proc[p]))
       \/ /\ LET r == proc[p]
                 h == HashOf(r.rid)
                 cachedItem == getCachedResult([k \in r.keys |-> h[k]], r.key)
             IN  proc' = [proc EXCEPT ![p] =
                             IF r.keys = {} THEN missed(r)
                             ELSE IF ~(r.keys \subseteq DOMAIN h)
                             THEN [r EXCEPT !.cpc = "failed", !.spc = "done"]
                             ELSE IF Truthy(cachedItem)
                             THEN [r EXCEPT !.cpc = "done", !.spc = "done", !.res = cachedItem,
                                            !.hit = TRUE]
                             ELSE missed(r)]
          /\ UNCHANGED <<redisFailed, notified, events, hashes, docs, model, redisID, fallbackData, nextId, log, faults>>

\* redis.hkeys of getRedisKeys answered, called by recursivelyDeleteFromCache:
\* a rejection has no handler; else deleteFromCache(...keys)
deleteKeys(p) ==
    /\ proc[p].cpc = "delete.hkeys"
    /\ \/ transportError(p, neverDeleted(proc[p]))
       \/ /\ LET r == proc[p]
                 keys == getRedisKeys(r.rid, r.key)
             IN  proc' = [proc EXCEPT ![p] =
                             IF redisFailed \/ keys = {} THEN deleted(r)
                             ELSE [r EXCEPT !.cpc = "delete.hdel", !.keys = keys]]
          /\ UNCHANGED <<redisFailed, notified, events, hashes, docs, model, redisID, fallbackData, nextId, log, faults>>

\* a deleteFromCache that answers without removing a field
deleteFromCache_Skip(p) ==
    /\ proc[p].cpc = "delete.hdel"
    /\ proc' = [proc EXCEPT ![p] = deleted(proc[p])]
    /\ UNCHANGED <<redisFailed, notified, events, hashes, docs, model, redisID, fallbackData, nextId, log, faults>>

\* redis.hdel of deleteFromCache answered, called by recursivelyDeleteFromCache
deleteFromCache(p) ==
    /\ proc[p].cpc = "delete.hdel"
    /\ \/ transportError(p, neverDeleted(proc[p]))
       \/ /\ LET r == proc[p]
                 h == HashOf(r.rid)
             IN  /\ hashes' = WithHash(r.rid, [k \in DOMAIN h \ r.keys |-> h[k]])
                 /\ proc' = [proc EXCEPT ![p] = deleted(r)]
          /\ UNCHANGED <<redisFailed, notified, events, docs, model, redisID, fallbackData, nextId, log, faults>>

\* redis.hmset of pushToRedis answered: hmset without a field is an error reply
pushed(p) ==
    /\ proc[p].cpc = "hmset"
    /\ LET r == proc[p]
           sets == hmSets(r.key, r.pushed)
           dels == hDel(r.key, r.pushed)
           h == HashOf(r.rid)
       IN  \/ transportError(p, [r EXCEPT !.cpc = "failed"])
           \/ /\ DOMAIN sets = {}
              /\ proc' = [proc EXCEPT ![p].cpc = "failed"]
              /\ UNCHANGED <<redisFailed, notified, events, hashes, docs, model, redisID, fallbackData, nextId, log, faults>>
           \/ /\ DOMAIN sets # {}
              /\ hashes' = WithHash(r.rid, sets @@ h)
              /\ proc' = [proc EXCEPT ![p] =
                             IF dels = {} \/ redisFailed THEN [r EXCEPT !.cpc = "done"]
                             ELSE [r EXCEPT !.cpc = "hmset.hdel", !.keys = dels]]
              /\ UNCHANGED <<redisFailed, notified, events, docs, model, redisID, fallbackData, nextId, log, faults>>

\* redis.hdel of deleteFromCache answered, called by pushToRedis: a rejection
\* has no handler
pushedDeleted(p) ==
    /\ proc[p].cpc = "hmset.hdel"
    /\ \/ transportError(p, [proc[p] EXCEPT !.cpc = "stuck"])
       \/ /\ LET r == proc[p]
                 h == HashOf(r.rid)
             IN  /\ hashes' = WithHash(r.rid, [k \in DOMAIN h \ r.keys |-> h[k]])
                 /\ proc' = [proc EXCEPT ![p].cpc = "done"]
          /\ UNCHANGED <<redisFailed, notified, events, docs, model, redisID, fallbackData, nextId, log, faults>>

(***************************************************************************)
(* The end of a call                                                       *)
(***************************************************************************)
\* Promise.all rejects with the first rejection; a promise awaited that never
\* settles leaves the call pending for ever
outcome(r) ==
    IF "failed" \in {r.cpc, r.spc} THEN "rejected"
    ELSE IF "stuck" \in {r.cpc, r.spc} THEN "pending"
    ELSE "resolved"

ended(p) ==
    /\ proc[p].op # "idle"
    /\ proc[p].cpc \in Terminal
    /\ proc[p].spc \in Terminal
    /\ log' = Append(log, [op |-> proc[p].op, c |-> proc[p].c, key |-> proc[p].key,
                           value |-> proc[p].value, out |-> outcome(proc[p]),
                           res |-> proc[p].res, hit |-> proc[p].hit,
                           outage |-> proc[p].outage, inits |-> proc[p].inits,
                           errs |-> proc[p].errs, down |-> proc[p].down,
                           keys |-> proc[p].keys,
                           alone |-> proc[p].alone])
    /\ proc' = [proc EXCEPT ![p] = Idle]
    /\ UNCHANGED <<redisFailed, notified, events, hashes, docs, model, redisID, fallbackData, nextId, faults>>

(***************************************************************************)
(* Specifications                                                          *)
(***************************************************************************)
Step(p) ==
    \/ noModel(p)
    \/ findOne(p)
    \/ getDocumentSave(p)
    \/ mongoSave(p)
    \/ getCachedKeys(p)
    \/ getFromRedis(p)
    \/ deleteKeys(p)
    \/ deleteFromCache(p)
    \/ pushed(p)
    \/ pushedDeleted(p)
    \/ ended(p)

\* the calls a client makes, at most n of them: process p, container c
Calls(p, c, keys, values, n) ==
    /\ Started < n
    /\ \/ \E k \in keys : getItem(p, c, k)
       \/ \E k \in keys, v \in values : setItem(p, c, k, v)
       \/ \E k \in keys : deleteItem(p, c, k)

\* one container, one call at a time, object values
Values == {VObjA, VNested, VNullLeaf}

Next ==
    \/ OnReady
    \/ OnError
    \/ Calls(1, 1, AllKeys, Values, MaxOps)
    \/ Step(1)

Spec == Init /\ [][Next]_vars

\* one container, one call at a time, scalar values at "a" beside a sibling "ab"
ScalarValues == {N0, N5, S5, VFalse, SEmpty, VNullLeaf}

NextScalar ==
    \/ OnReady
    \/ OnError
    \/ Calls(1, 1, {KeyA}, ScalarValues, MaxOps)
    \/ Calls(1, 1, {KeyAB}, {N5}, MaxOps)
    \/ Step(1)

SpecScalar == Init /\ [][NextScalar]_vars

\* one container, one key, one more call: an object overwritten by a smaller one
ShrinkValues == {VObjAB, VObjA, VNullLeaf}

NextShrink ==
    \/ OnReady
    \/ OnError
    \/ Calls(1, 1, {KeyA}, ShrinkValues, MaxOps + 1)
    \/ Step(1)

SpecShrink == Init /\ [][NextShrink]_vars

\* one container, two calls in flight
ConcValues == {VObjA, VObjB, VNullLeaf}

NextConc ==
    \/ OnReady
    \/ OnError
    \/ \E p \in Procs : Calls(p, 1, {KeyA}, ConcValues, MaxOps)
    \/ \E p \in Procs : Step(p)

SpecConc == Init /\ [][NextConc]_vars

\* one container, one key: a writer and reader, and beside it a deleter
RaceValues == {VObjA, VNullLeaf}

NextRace ==
    \/ OnReady
    \/ OnError
    \/ Started < MaxOps + 1 /\ \E v \in RaceValues : setItem(1, 1, KeyA, v)
    \/ Started < MaxOps + 1 /\ getItem(1, 1, KeyA)
    \/ Started < MaxOps + 1 /\ deleteItem(2, 1, KeyA)
    \/ \E p \in Procs : Step(p)

SpecRace == Init /\ [][NextRace]_vars

\* two containers constructed with the same query, one call at a time
TwoValues == {VNullLeaf, N5}

NextTwo ==
    \/ OnReady
    \/ OnError
    \/ \E c \in Containers : Calls(1, c, {KeyA}, TwoValues, MaxOps)
    \/ Step(1)

SpecTwo == Init /\ [][NextTwo]_vars

\* one container, one key, one call at a time: the empty object, null, a
\* falsy and a truthy number, and an object with a null leaf
EdgeValues == {EmptyObj, Null, N0, N5, VNullLeaf}

NextEdge ==
    \/ OnReady
    \/ OnError
    \/ Calls(1, 1, {KeyA}, EdgeValues, MaxOps)
    \/ Step(1)

SpecEdge == Init /\ [][NextEdge]_vars

(***************************************************************************)
(* Properties                                                              *)
(***************************************************************************)
RECURSIVE NoNullLeaves(_)
NoNullLeaves(v) ==
    CASE v.t \in {"null", "undefined"} -> FALSE
      [] v.t = "object" -> \A k \in DOMAIN v.f : NoNullLeaves(v.f[k])
      [] v.t = "array" -> \A i \in 1..Len(v.e) : NoNullLeaves(v.e[i])
      [] OTHER -> TRUE

IsScalar(v) == v.t \in {"number", "boolean", "string"}

\* log[i] is setItem(key, value), resolved, and log[i + 1] is the next call of
\* the same container, op(key), resolved: nothing ran between the two
DirectlyAfterSet(i, op) ==
    /\ i >= 1
    /\ i + 1 <= Len(log)
    /\ log[i].op = "setItem"
    /\ log[i].out = "resolved"
    /\ log[i].alone
    /\ log[i + 1].op = op
    /\ log[i + 1].c = log[i].c
    /\ log[i + 1].key = log[i].key
    /\ log[i + 1].out = "resolved"
    /\ log[i + 1].alone

\* what the durable store, or without a store the fallback map, holds at key
Durable(c, key) ==
    IF model THEN (IF docs = <<>> THEN Undef ELSE docs[1].storage[key])
    ELSE fallbackData[c][key]

\* C1: with the cache reachable and a store configured, setItem(k, v) of a
\* value without null/undefined leaves, followed directly by getItem(k),
\* returns a value equal to v.
C1_RoundTrip ==
    \A i \in 1..Len(log) :
        (/\ DirectlyAfterSet(i, "getItem")
         /\ model
         /\ ~log[i].outage /\ ~log[i + 1].outage
         /\ NoNullLeaves(log[i].value))
        => log[i + 1].res = log[i].value

\* C2: after setItem(k, v1) and then setItem(k, v2), v2 an object with fewer
\* fields than the object v1, getItem(k) returns exactly v2.
C2_ShrinkOverwrite ==
    \A i \in 1..Len(log) :
        (/\ DirectlyAfterSet(i + 1, "getItem")
         /\ log[i].op = "setItem" /\ log[i].out = "resolved" /\ log[i].key = log[i + 1].key
         /\ ~log[i].outage /\ ~log[i + 1].outage /\ ~log[i + 2].outage
         /\ log[i].value.t = "object" /\ log[i + 1].value.t = "object"
         /\ NoNullLeaves(log[i].value) /\ NoNullLeaves(log[i + 1].value)
         /\ DOMAIN log[i + 1].value.f \subseteq DOMAIN log[i].value.f
         /\ DOMAIN log[i + 1].value.f # DOMAIN log[i].value.f)
        => log[i + 2].res = log[i + 1].value

\* C3: a call that runs while the cache is reported unreachable, and meets no
\* error of the store, completes: it is neither rejected nor pending for ever.
C3_DegradedMode ==
    \A i \in 1..Len(log) :
        (log[i].down /\ log[i].errs = {}) => log[i].out = "resolved"

\* C4: once a container's redisID holds a value, it never holds another one.
C4_RedisIDAssignedOnce ==
    [][\A c \in Containers : redisID[c] # Unassigned => redisID'[c] = redisID[c]]_vars

\* the state right after setItem(k, v) of an object and then deleteItem(k)
\* have both completed
AfterSetThenDelete(i) ==
    /\ DirectlyAfterSet(i, "deleteItem")
    /\ Len(log) = i + 1
    /\ Active = {}
    /\ log[i].value.t = "object"

\* the key-listing primitive: what getRedisKeys(k) would resolve with now
ListedUnder(c, key) == IF redisFailed THEN {} ELSE getRedisKeys(redisID[c], key)

C6_ScalarUnwrap ==
    \A i \in 1..Len(log) :
        (DirectlyAfterSet(i, "getItem") /\ IsScalar(log[i].value))
        => log[i + 1].res = log[i].value

\* a number of at most 14 characters, a boolean, the empty string, or a string
\* that does not read as a number, a boolean or JSON
CoercionKeeps(s) ==
    \/ s.t = "number" /\ Len(s.d) <= TransformMaxLen
    \/ s.t = "boolean"
    \/ /\ s.t = "string"
       /\ \/ s.s = <<>>
          \/ /\ ~IsNumeric(s.s)
             /\ s.s \notin {StrTrue, StrFalse}
             /\ ~(startsWith(s.s, <<"[">>) \/ startsWith(s.s, <<"{">>))

\* C6 as amended: for a scalar s that the coercion of cached strings keeps,
\* setItem(x, s) followed by getItem(x) returns s itself, not {x: s}.
C6_ScalarUnwrapKept ==
    \A i \in 1..Len(log) :
        (DirectlyAfterSet(i, "getItem") /\ CoercionKeeps(log[i].value))
        => log[i + 1].res = log[i].value

\* setItem("a", 5) then getItem("a"), answered 5 from the cache
C6_Witness ==
    /\ Len(log) = 2
    /\ DirectlyAfterSet(1, "getItem")
    /\ log[1].value = N5
    /\ log[2].hit
    /\ log[2].res = N5

\* C7: for a falsy scalar f (0, false, ""), setItem(x, f) followed by
\* getItem(x) returns f, and not from the cache: the falsy cached result counts
\* as a miss and the value is read from the store or the fallback map.
C7_FalsySurvives ==
    \A i \in 1..Len(log) :
        (DirectlyAfterSet(i, "getItem") /\ log[i].value \in {N0, VFalse, SEmpty})
        => /\ log[i + 1].res = log[i].value
           /\ ~log[i + 1].hit

\* setItem("a", "") then getItem("a") with the cache reachable throughout: the
\* cache holds "" at a, and getItem returned ""
C7_Witness ==
    /\ Len(log) = 2
    /\ DirectlyAfterSet(1, "getItem")
    /\ log[1].value = SEmpty
    /\ ~log[1].outage /\ ~log[2].outage
    /\ log[2].res = SEmpty
    /\ KeyA \in DOMAIN HashOf(redisID[1])
    /\ HashOf(redisID[1])[KeyA] = <<>>

\* C8: with a store, calls made one after the other leave exactly one
\* document; a call that follows a completed one finds that document and does
\* not persist one again to initialize it.
C8_OneDocument ==
    /\ Len(docs) <= 1
    /\ \A i \in 1..Len(log) :
           (model /\ log[i].out = "resolved")
           => /\ Len(docs) = 1
              /\ i < Len(log) => log[i + 1].inits = 0
              /\ i = Len(log) => \A p \in Procs : proc[p].inits = 0

\* two calls completed; the first created the document
C8_Witness ==
    /\ model
    /\ Len(log) = 2
    /\ log[1].out = "resolved" /\ log[1].inits = 1
    /\ log[2].out = "resolved" /\ log[2].inits = 0
    /\ Len(docs) = 1

\* the errors of the cache write and of the durable write of setItem
WriteErrors ==
    {<<"hmset", "cache">>, <<"hmset.hdel", "cache">>, <<"findOne", "setMongo">>,
     <<"getDocument.save", "setMongo">>, <<"save", "setMongo">>}

\* C9: a setItem whose cache write (the deletion of the delete-marked fields
\* included) or durable write failed is rejected.
C9_SetFailureSurfaces ==
    \A i \in 1..Len(log) :
        (log[i].op = "setItem" /\ log[i].errs \cap WriteErrors # {})
        => log[i].out = "rejected"

\* the errors of the read phase of getItem
ReadErrors == {<<"getCached.hkeys", "cache">>, <<"getCached.hmget", "cache">>}

\* C10: a getItem that met only transport errors of its cache read is not
\* rejected.
C10_ReadFailureIsMiss ==
    \A i \in 1..Len(log) :
        (log[i].op = "getItem" /\ log[i].errs # {} /\ log[i].errs \subseteq ReadErrors)
        => log[i].out # "rejected"

\* the cache entries listed under key in container c's namespace
CachedUnder(c, key) ==
    LET h == HashOf(redisID[c])
    IN  [k \in getRedisKeys(redisID[c], key) |-> h[k]]

\* C11: when setItem(k, v1) and setItem(k, v2) of one container ran
\* concurrently and both completed, the cache entries under k are exactly
\* the flattened form of v1 or exactly the flattened form of v2.
C11_LastWriteWins ==
    (/\ Len(log) = 2
     /\ Active = {}
     /\ model /\ Len(docs) = 1
     /\ \A i \in 1..2 : /\ log[i].op = "setItem" /\ log[i].out = "resolved"
                         /\ ~log[i].alone /\ ~log[i].outage /\ log[i].errs = {}
     /\ log[1].c = log[2].c /\ log[1].key = log[2].key)
    => CachedUnder(log[1].c, log[1].key)
           \in {hmSets(log[1].key, log[1].value), hmSets(log[2].key, log[2].value)}

\* the field paths of the durable document under its storage root
DocumentPaths ==
    IF docs = <<>> THEN {}
    ELSE UNION {DOMAIN flat(k, docs[1].storage[k]) : k \in {x \in AllKeys : docs[1].storage[x] # Undef}}

\* C12: when no operation is in flight, every field path in the container's
\* cache namespace is a path of the durable document; here after a setItem
\* followed by a getItem racing a deleteItem, all completed without error
\* and with the cache reachable.
C12_PathConsistency ==
    (/\ Active = {}
     /\ model /\ Len(docs) = 1
     /\ Len(log) = 3
     /\ \A i \in 1..3 : log[i].out = "resolved" /\ ~log[i].outage /\ log[i].errs = {}
     /\ log[1].op = "setItem" /\ log[1].alone
     /\ {log[2].op, log[3].op} = {"getItem", "deleteItem"})
    => \A c \in Containers : DOMAIN HashOf(redisID[c]) \subseteq DocumentPaths

\* C13: without a store, two containers never share a cache identifier, and
\* a getItem of a container that made no setItem before returns undefined,
\* whatever the other container has set.
C13_NoStoreFallbackIsolated ==
    ~model
    => /\ \A c1, c2 \in Containers :
              (c1 # c2 /\ redisID[c1] # Unassigned) => redisID[c1] # redisID[c2]
       /\ \A j \in 1..Len(log) :
              (/\ log[j].op = "getItem"
               /\ log[j].out = "resolved"
               /\ \A i \in 1..(j - 1) : ~(log[i].op = "setItem" /\ log[i].c = log[j].c))
              => log[j].res = Undef /\ ~log[j].hit

\* without a store: container 1 set a value at "a", its cache and its
\* fallback map hold it, and getItem("a") of container 2 returned undefined
C13_Witness ==
    /\ ~model
    /\ Len(log) = 2
    /\ log[1].op = "setItem" /\ log[1].c = 1 /\ log[1].out = "resolved"
    /\ log[2].op = "getItem" /\ log[2].c = 2 /\ log[2].out = "resolved"
    /\ log[2].key = log[1].key
    /\ log[2].res = Undef
    /\ fallbackData[1][log[1].key] = log[1].value
    /\ DOMAIN HashOf(redisID[1]) # {}
    /\ redisID[2] \notin {Unassigned, redisID[1]}

\* pushToRedis or setMongo of the setItem r has been called
WriteIssued(r) == r.pushed # Undef \/ r.ret = "setMongo"

\* C14: a setItem calls pushToRedis and setMongo only once its recursive
\* deletion has resolved, never while it is awaited and never after it
\* failed; and right after a setItem(k, v) that ran alone and resolved, the
\* cache keys listed under k are exactly the paths of v's non-null leaves.
C14_DeleteBeforeWrite ==
    /\ \A p \in Procs :
           (proc[p].op = "setItem" /\ WriteIssued(proc[p]))
           => /\ proc[p].cpc \notin {"wait", "delete.hkeys", "delete.hdel"}
              /\ proc[p].errs \cap {<<"delete.hkeys", "cache">>, <<"delete.hdel", "cache">>} = {}
    /\ \A i \in 1..Len(log) :
           (/\ i = Len(log) /\ Active = {}
            /\ log[i].op = "setItem" /\ log[i].out = "resolved" /\ log[i].alone)
           => getRedisKeys(redisID[log[i].c], log[i].key) = DOMAIN hmSets(log[i].key, log[i].value)

\* setItem("a", {a: {b: 1, c: 2}}) then setItem("a", {a: 1}): the second
\* deleted a.a.b and a.a.c before it wrote a.a
C14_Witness ==
    /\ Len(log) = 2
    /\ Active = {}
    /\ log[1].op = "setItem" /\ log[1].out = "resolved" /\ log[1].value = VNested
    /\ log[2].op = "setItem" /\ log[2].out = "resolved" /\ log[2].value = VObjA
    /\ log[1].key = KeyA /\ log[2].key = KeyA
    /\ log[2].keys = {<<"a", ".", "a", ".", "b">>, <<"a", ".", "a", ".", "c">>}
    /\ DOMAIN HashOf(redisID[1]) = {<<"a", ".", "a">>}

\* the getItem r is about to return to its caller after a cache miss
ReturnsAfterMiss(r) ==
    /\ r.op = "getItem"
    /\ r.cpc \in Terminal /\ r.spc \in Terminal
    /\ outcome(r) = "resolved"
    /\ ~r.hit

\* C15: when getItem(k) returns after a cache miss, it returns what the
\* durable store or the fallback map holds at k; if that is defined, the
\* cache holds its flattened entries under k, and if it is undefined,
\* getItem has not called the cache write.
C15_ReadThrough ==
    \A p \in Procs :
        ReturnsAfterMiss(proc[p])
        => LET r == proc[p]
               h == HashOf(redisID[r.c])
               sets == hmSets(r.key, r.res)
           IN  /\ r.res = Durable(r.c, r.key)
               /\ IF r.res # Undef
                  THEN \A k \in DOMAIN sets : k \in DOMAIN h /\ h[k] = sets[k]
                  ELSE r.pushed = Undef

\* a getItem("a") that missed the reachable cache, read {a: 1} from the
\* store and is about to return it with a.a = "1" written to the cache
C15_Witness ==
    /\ ReturnsAfterMiss(proc[1])
    /\ proc[1].key = KeyA
    /\ proc[1].res = VObjA
    /\ ~proc[1].outage
    /\ proc[1].errs = {}
    /\ HashOf(redisID[1]) = hmSets(KeyA, VObjA)

\* what getCached computes from the entries that setItem(key, value) leaves
\* in the cache
CachedAfterSet(key, value) ==
    LET sets == hmSets(key, value)
    IN  IF DOMAIN sets = {} THEN Undef ELSE getCachedResult(sets, key)

\* setItem(k, v) then getItem(k), with the cache reachable and no error
SetThenGetReachable(i) ==
    /\ DirectlyAfterSet(i, "getItem")
    /\ ~log[i].outage /\ ~log[i + 1].outage
    /\ log[i].errs = {} /\ log[i + 1].errs = {}

\* C16 as claimed: getItem returns the cache result only when it is truthy;
\* a cache result that is an empty object, 0, false or "" is a miss and
\* getItem returns what the store or the fallback map holds.
C16_CacheHitDefinition ==
    \A i \in 1..Len(log) :
        SetThenGetReachable(i)
        => LET cached == CachedAfterSet(log[i].key, log[i].value)
           IN  IF cached \in {Undef, Null, EmptyObj, N0, VFalse, SEmpty}
               THEN ~log[i + 1].hit /\ log[i + 1].res = log[i].value
               ELSE log[i + 1].hit /\ log[i + 1].res = cached

\* C16 as amended: a cache result that is undefined, null, 0, false or "" is
\* a miss; every other one, the empty object included, is returned as a hit.
\* A getItem that lists no cache key under its key is a miss.
C16_CacheHitIsTruthy ==
    /\ \A i \in 1..Len(log) :
           SetThenGetReachable(i)
           => LET cached == CachedAfterSet(log[i].key, log[i].value)
              IN  IF cached \in {Undef, Null, N0, VFalse, SEmpty}
                  THEN ~log[i + 1].hit /\ log[i + 1].res = log[i].value
                  ELSE log[i + 1].hit /\ log[i + 1].res = cached
    /\ \A i \in 1..Len(log) :
           (log[i].op = "getItem" /\ log[i].hit)
           => log[i].res \notin {Undef, Null, N0, VFalse, SEmpty}
    /\ \A p \in Procs :
           (proc[p].op = "getItem" /\ proc[p].hit) => DOMAIN HashOf(proc[p].rid) # {}

\* setItem("a", {}) then getItem("a"), answered {} from the cache
C16_Witness ==
    /\ Len(log) = 2
    /\ SetThenGetReachable(1)
    /\ log[1].value = EmptyObj
    /\ log[2].hit
    /\ log[2].res = EmptyObj

\* the transport errors of recursivelyDeleteFromCache: of its key listing and
\* of its batched delete
DeletionErrors == {<<"delete.hkeys", "cache">>, <<"delete.hdel", "cache">>}

\* C17: a deleteItem or setItem whose recursive cache deletion met a
\* transport error, in the key listing or in the delete itself, is rejected.
C17_DeletionErrorsPropagate ==
    \A i \in 1..Len(log) :
        (log[i].op \in {"deleteItem", "setItem"} /\ log[i].errs \cap DeletionErrors # {})
        => log[i].out = "rejected"

\* C18: a setItem(k, v) of a value with null leaves (or of null), run alone
\* with the cache reachable and no transport or store error, resolves, also
\* when no leaf is left to set; right after it the cache holds no entry at a
\* null leaf's path and holds every other leaf.
C18_DeleteMarkers ==
    \A i \in 1..Len(log) :
        (/\ log[i].op = "setItem"
         /\ log[i].alone
         /\ ~log[i].outage
         /\ log[i].errs = {}
         /\ hDel(log[i].key, log[i].value) # {})
        => /\ log[i].out = "resolved"
           /\ (i = Len(log) /\ Active = {})
              => LET h == HashOf(redisID[log[i].c])
                     sets == hmSets(log[i].key, log[i].value)
                 IN  /\ DOMAIN h \cap hDel(log[i].key, log[i].value) = {}
                     /\ \A k \in DOMAIN sets : k \in DOMAIN h /\ h[k] = sets[k]

\* the positions of a call at which a cache command is in flight
Issued ==
    {"getCached.hkeys", "getCached.hmget", "delete.hkeys", "delete.hdel", "hmset", "hmset.hdel"}

\* C19: in a step taken while redisFailed is set no call issues a cache
\* command, and while every call in flight has run entirely during the
\* outage the cache contents do not change.
C19_CacheUntouchedWhileDown ==
    [][redisFailed
       => /\ \A p \in Procs :
                 proc'[p].cpc \in Issued => proc'[p].cpc = proc[p].cpc
          /\ (\A p \in Active : proc[p].down) => hashes' = hashes]_vars

\* setItem("a", v) filled the cache; then a deleteItem("a") ran from its
\* start to its end during an outage and resolved, and the cache still
\* holds the entries
C19_Witness ==
    /\ Len(log) = 2
    /\ log[1].op = "setItem" /\ log[1].out = "resolved" /\ ~log[1].outage
    /\ log[2].op = "deleteItem" /\ log[2].out = "resolved" /\ log[2].down
    /\ log[2].key = log[1].key
    /\ redisFailed
    /\ HashOf(redisID[1]) = hmSets(log[1].key, log[1].value)

\* C20: while the provider yields a store no operation changes the fallback
\* map, which stays as constructed, and a getItem that returns after a cache
\* miss returns the document's field, not the fallback map's.
C20_FallbackOnlyWithoutStore ==
    model
    => /\ \A c \in Containers : fallbackData[c] = AllUndef
       /\ \A p \in Procs :
              ReturnsAfterMiss(proc[p])
              => proc[p].res = IF docs = <<>> THEN Undef ELSE docs[1].storage[proc[p].key]

\* with a store: a setItem wrote the document, and the getItem after it
\* missed the cache and is about to return the document's field, the
\* fallback map being empty
C20_Witness ==
    /\ model
    /\ Len(log) = 1
    /\ log[1].op = "setItem"
    /\ ReturnsAfterMiss(proc[1])
    /\ proc[1].res = log[1].value
    /\ docs # <<>>
    /\ fallbackData[1] = AllUndef

\* C21: redisFailed is set exactly when the most recent transport event is
\* an error, and clear after every ready event and before any event; it
\* follows the events only. The number of notifications printed in the
\* current outage is one, however many error events it had, and none when
\* there is no outage.
C21_ReachabilitySignal ==
    /\ redisFailed = events.lastError
    /\ events.notes = IF events.lastError THEN 1 ELSE 0

\* an outage in which a second error event arrived: the signal is down and
\* one notification was printed
C21_Witness ==
    /\ events.lastError
    /\ events.repeated
    /\ redisFailed
    /\ events.notes = 1

\* C22: with a store and the cache reachable, two getItem(k) calls made one
\* directly after the other return equal values.
C22_GetItemRepeatable ==
    \A i \in 1..Len(log) :
        (/\ i + 1 <= Len(log)
         /\ model
         /\ log[i].op = "getItem" /\ log[i + 1].op = "getItem"
         /\ log[i].c = log[i + 1].c /\ log[i].key = log[i + 1].key
         /\ log[i].out = "resolved" /\ log[i + 1].out = "resolved"
         /\ log[i].alone /\ log[i + 1].alone
         /\ ~log[i].outage /\ ~log[i + 1].outage)
        => log[i + 1].res = log[i].res

\* C23: after setItem("ab", v) an operation on the key "a", of which "ab" is
\* no descendant, leaves the cache entries of "ab" in place when it is a
\* setItem or a deleteItem, and returns what is stored at "a" when it is a
\* getItem.
C23_KeyIsolation ==
    \A i \in 1..Len(log) :
        (/\ i + 1 = Len(log) /\ Active = {}
         /\ log[i].op = "setItem" /\ log[i].key = KeyAB /\ log[i + 1].key = KeyA
         /\ log[i].c = log[i + 1].c
         /\ log[i].out = "resolved" /\ log[i + 1].out = "resolved"
         /\ log[i].alone /\ log[i + 1].alone
         /\ ~log[i].outage /\ ~log[i + 1].outage)
        => LET h == HashOf(redisID[log[i].c])
               sets == hmSets(KeyAB, log[i].value)
           IN  IF log[i + 1].op = "getItem"
               THEN log[i + 1].res = Durable(log[i].c, KeyA)
               ELSE \A k \in DOMAIN sets : k \in DOMAIN h /\ h[k] = sets[k]

\* C24: setItem(k, v) filled the cache, a deleteItem(k) ran from its start
\* to its end during an outage, and after the outage getItem(k) was called:
\* it returns what the durable store holds at k now.
C24_NoStaleReadAfterOutage ==
    \A i \in 1..Len(log) :
        (/\ i + 2 = Len(log) /\ Active = {}
         /\ model
         /\ log[i].op = "setItem" /\ log[i].out = "resolved" /\ ~log[i].outage
         /\ log[i + 1].op = "deleteItem" /\ log[i + 1].out = "resolved" /\ log[i + 1].down
         /\ log[i + 2].op = "getItem" /\ log[i + 2].out = "resolved" /\ ~log[i + 2].outage
         /\ log[i].key = log[i + 1].key /\ log[i].key = log[i + 2].key
         /\ log[i].c = log[i + 1].c /\ log[i].c = log[i + 2].c)
        => log[i + 2].res = Durable(log[i].c, log[i].key)

\* C25: with a store, once two operations that were started concurrently
\* while no document existed have both completed, exactly one document
\* exists for the query.
C25_OneDocumentConcurrently ==
    (/\ model
     /\ Active = {}
     /\ Len(log) = 2
     /\ \A i \in 1..2 : log[i].out = "resolved" /\ ~log[i].alone /\ log[i].errs = {}
                         /\ ~log[i].outage)
    => Len(docs) = 1
====
